---- MODULE Spec2Model ----
(***************************************************************************)
(* Snowflake ID generators of ekoteq/pyflaker.                             *)
(*                                                                         *)
(*   g_*  src/main.py       generator(): the closure (yield) generator,    *)
(*                          and c_*: the Snowflake client around it        *)
(*   t_*  src/pyflaker.py   SnowflakeGenerator guarded by threading.Lock   *)
(*   m_*  src/src/main.py   SnowflakeGenerator configured by a metaclass   *)
(*                                                                         *)
(* Every variant has its own variables, its own clock and its own          *)
(* specification; a specification leaves the other variants' variables     *)
(* unchanged.                                                              *)
(***************************************************************************)
EXTENDS Integers, Naturals, Sequences, FiniteSets, TLC

(***************************************************************************)
(* Python's integers are unbounded two's complement numbers.  The bit      *)
(* operators recurse on the binary expansion; 0 and -1 are the two         *)
(* infinite expansions (all zeros, all ones).                              *)
(***************************************************************************)
BitAndOf[a \in Int, b \in Int] ==
    IF a = 0 \/ b = 0 THEN 0
    ELSE IF a = -1 THEN b
    ELSE IF b = -1 THEN a
    ELSE 2 * BitAndOf[a \div 2, b \div 2] + (a % 2) * (b % 2)

BitOrOf[a \in Int, b \in Int] ==
    IF a = 0 THEN b
    ELSE IF b = 0 THEN a
    ELSE IF a = -1 \/ b = -1 THEN -1
    ELSE 2 * BitOrOf[a \div 2, b \div 2] + (IF a % 2 = 1 \/ b % 2 = 1 THEN 1 ELSE 0)

BitXorOf[a \in Int, b \in Int] ==
    IF a = 0 THEN b
    ELSE IF b = 0 THEN a
    ELSE IF a = -1 /\ b = -1 THEN 0
    ELSE 2 * BitXorOf[a \div 2, b \div 2] + (IF a % 2 = b % 2 THEN 0 ELSE 1)

\* a & b, a | b and a ^ b
BitAnd(a, b) == BitAndOf[a, b]
BitOr(a, b) == BitOrOf[a, b]
BitXor(a, b) == BitXorOf[a, b]

\* x << n and x >> n (Python's >> is the arithmetic shift: it floors).
Shl(x, n) == x * 2^n
Shr(x, n) == x \div 2^n

Min(a, b) == IF a <= b THEN a ELSE b

(***************************************************************************)
(* Bounds of the model.                                                    *)
(***************************************************************************)
\* Clock readings in milliseconds are 0..MaxMs.
MaxMs == 2
\* Loop iterations of one call are counted up to MaxTries (the count saturates).
MaxTries == 2

VARIABLES
    \* ---- src/main.py: generator objects, indexed by object id
    g_epoch,            \* argument epoch
    g_pid,              \* argument pid
    g_seed,             \* argument seed
    g_state,            \* "created" (body not started), "running", "suspended" (at the yield), "finished"
    g_pc,               \* while running: "loop" (line 52) or "sleep" (inside sleep())
    g_last_timestamp,   \* local last_timestamp
    g_sequence,         \* local sequence
    g_sleep_arg,        \* argument of the sleep in progress (0: not sleeping)
    g_result,           \* outcome of the latest next(): "none", "yield", "AssertionError", "StopIteration"
    g_yielded,          \* the value yielded last
    g_in_ms,            \* history: how many values were yielded with the timestamp of the last one
    g_tries,            \* history: loop iterations of the current next() call, saturating
    g_time              \* what math.floor(time.time() * 1000) returns now

g_vars == <<g_epoch, g_pid, g_seed, g_state, g_pc, g_last_timestamp, g_sequence,
            g_sleep_arg, g_result, g_yielded, g_in_ms, g_tries, g_time>>

(***************************************************************************)
(* src/main.py: generator(epoch, pid, seed, sleep)                         *)
(***************************************************************************)
g_pid_bits == 5
g_seed_bits == 5
g_sequence_bits == 12

g_max_pid == BitXor(-1, Shl(-1, g_pid_bits))
g_max_seed == BitXor(-1, Shl(-1, g_seed_bits))
g_sequence_mask == BitXor(-1, Shl(-1, g_sequence_bits))

g_pid_shift == g_sequence_bits
g_seed_shift == g_sequence_bits + g_pid_bits
g_timestamp_shift == g_sequence_bits + g_pid_bits + g_seed_bits

\* The two assert statements, run by the first next().
GenAsserts(pid, seed) ==
    /\ pid >= 0 /\ pid <= g_max_pid
    /\ seed >= 0 /\ seed <= g_max_seed

\* GenPack without the seed field.
GenPackNoSeed(timestamp, epoch, seed, pid, sequence) ==
    BitOr(BitOr(Shl(timestamp - epoch, g_timestamp_shift),
                Shl(pid, g_pid_shift)),
          sequence)

\* The yielded expression.
GenPack(timestamp, epoch, seed, pid, sequence) ==
    BitOr(BitOr(BitOr(Shl(timestamp - epoch, g_timestamp_shift),
                      Shl(seed, g_seed_shift)),
                Shl(pid, g_pid_shift)),
          sequence)

\* GenLoopBody without the test for a clock that moved backwards.
GenLoopBodyNoRegress(last_timestamp, sequence, timestamp) ==
    IF last_timestamp = timestamp
    THEN LET s == BitAnd(sequence + 1, g_sequence_mask) IN
         IF s = 0
         THEN [branch |-> "exhausted", sleep |-> 1,
               last_timestamp |-> last_timestamp,
               sequence |-> BitAnd(-1, g_sequence_mask)]
         ELSE [branch |-> "yield", sleep |-> 0,
               last_timestamp |-> timestamp, sequence |-> s]
    ELSE [branch |-> "yield", sleep |-> 0,
          last_timestamp |-> timestamp, sequence |-> 0]

\* GenLoopBody leaving the overrun sequence at 0 instead of setting it back to
\* the mask.
GenLoopBodyNoRestore(last_timestamp, sequence, timestamp) ==
    IF last_timestamp > timestamp
    THEN [branch |-> "regressed", sleep |-> last_timestamp - timestamp,
          last_timestamp |-> last_timestamp, sequence |-> sequence]
    ELSE IF last_timestamp = timestamp
    THEN LET s == BitAnd(sequence + 1, g_sequence_mask) IN
         IF s = 0
         THEN [branch |-> "exhausted", sleep |-> 1,
               last_timestamp |-> last_timestamp, sequence |-> s]
         ELSE [branch |-> "yield", sleep |-> 0,
               last_timestamp |-> timestamp, sequence |-> s]
    ELSE [branch |-> "yield", sleep |-> 0,
          last_timestamp |-> timestamp, sequence |-> 0]

\* GenLoopBody that keeps the sequence when the millisecond changes.
GenLoopBodyNoReset(last_timestamp, sequence, timestamp) ==
    IF last_timestamp > timestamp
    THEN [branch |-> "regressed", sleep |-> last_timestamp - timestamp,
          last_timestamp |-> last_timestamp, sequence |-> sequence]
    ELSE IF last_timestamp = timestamp
    THEN LET s == BitAnd(sequence + 1, g_sequence_mask) IN
         IF s = 0
         THEN [branch |-> "exhausted", sleep |-> 1,
               last_timestamp |-> last_timestamp,
               sequence |-> BitAnd(-1, g_sequence_mask)]
         ELSE [branch |-> "yield", sleep |-> 0,
               last_timestamp |-> timestamp, sequence |-> s]
    ELSE [branch |-> "yield", sleep |-> 0,
          last_timestamp |-> timestamp, sequence |-> sequence]

\* GenLoopBody that sleeps one millisecond when the clock moved backwards.
GenLoopBodySleepsOne(last_timestamp, sequence, timestamp) ==
    IF last_timestamp > timestamp
    THEN [branch |-> "regressed", sleep |-> 1,
          last_timestamp |-> last_timestamp, sequence |-> sequence]
    ELSE IF last_timestamp = timestamp
    THEN LET s == BitAnd(sequence + 1, g_sequence_mask) IN
         IF s = 0
         THEN [branch |-> "exhausted", sleep |-> 1,
               last_timestamp |-> last_timestamp,
               sequence |-> BitAnd(-1, g_sequence_mask)]
         ELSE [branch |-> "yield", sleep |-> 0,
               last_timestamp |-> timestamp, sequence |-> s]
    ELSE [branch |-> "yield", sleep |-> 0,
          last_timestamp |-> timestamp, sequence |-> 0]

\* GenLoopBody with the first comparison reversed: it sleeps when the clock
\* reads later than last_timestamp.
GenLoopBodyReversedTest(last_timestamp, sequence, timestamp) ==
    IF last_timestamp < timestamp
    THEN [branch |-> "regressed", sleep |-> timestamp - last_timestamp,
          last_timestamp |-> last_timestamp, sequence |-> sequence]
    ELSE IF last_timestamp = timestamp
    THEN LET s == BitAnd(sequence + 1, g_sequence_mask) IN
         IF s = 0
         THEN [branch |-> "exhausted", sleep |-> 1,
               last_timestamp |-> last_timestamp,
               sequence |-> BitAnd(-1, g_sequence_mask)]
         ELSE [branch |-> "yield", sleep |-> 0,
               last_timestamp |-> timestamp, sequence |-> s]
    ELSE [branch |-> "yield", sleep |-> 0,
          last_timestamp |-> timestamp, sequence |-> 0]

\* One iteration of the while loop, from the clock reading to the sleep or to
\* the yield: what it does next and the locals it leaves.
GenLoopBody(last_timestamp, sequence, timestamp) ==
    IF last_timestamp > timestamp
    THEN [branch |-> "regressed", sleep |-> last_timestamp - timestamp,
          last_timestamp |-> last_timestamp, sequence |-> sequence]
    ELSE IF last_timestamp = timestamp
    THEN LET s == BitAnd(sequence + 1, g_sequence_mask) IN
         IF s = 0
         THEN [branch |-> "exhausted", sleep |-> 1,
               last_timestamp |-> last_timestamp,
               sequence |-> BitAnd(-1, g_sequence_mask)]
         ELSE [branch |-> "yield", sleep |-> 0,
               last_timestamp |-> timestamp, sequence |-> s]
    ELSE [branch |-> "yield", sleep |-> 0,
          last_timestamp |-> timestamp, sequence |-> 0]

\* next(g) is called: the first call runs the body up to the loop (the asserts
\* and the two locals), a later one resumes after the yield, and a finished
\* generator raises StopIteration.
GenNext(g) ==
    /\ g_state[g] \in {"created", "suspended", "finished"}
    /\ IF g_state[g] = "created"
       THEN IF GenAsserts(g_pid[g], g_seed[g])
            THEN /\ g_state' = [g_state EXCEPT ![g] = "running"]
                 /\ g_last_timestamp' = [g_last_timestamp EXCEPT ![g] = -1]
                 /\ g_sequence' = [g_sequence EXCEPT ![g] = 0]
                 /\ g_result' = [g_result EXCEPT ![g] = "none"]
            ELSE /\ g_state' = [g_state EXCEPT ![g] = "finished"]
                 /\ g_result' = [g_result EXCEPT ![g] = "AssertionError"]
                 /\ UNCHANGED <<g_last_timestamp, g_sequence>>
       ELSE IF g_state[g] = "suspended"
       THEN /\ g_state' = [g_state EXCEPT ![g] = "running"]
            /\ g_result' = [g_result EXCEPT ![g] = "none"]
            /\ UNCHANGED <<g_last_timestamp, g_sequence>>
       ELSE /\ g_result' = [g_result EXCEPT ![g] = "StopIteration"]
            /\ UNCHANGED <<g_state, g_last_timestamp, g_sequence>>
    /\ g_pc' = [g_pc EXCEPT ![g] = "loop"]
    /\ g_tries' = [g_tries EXCEPT ![g] = 0]
    /\ UNCHANGED <<g_epoch, g_pid, g_seed, g_sleep_arg, g_yielded, g_in_ms, g_time>>

\* One loop iteration of a running generator: read the clock, then sleep or yield.
GenLoop(g) ==
    /\ g_state[g] = "running"
    /\ g_pc[g] = "loop"
    /\ LET timestamp == g_time
           r == GenLoopBody(g_last_timestamp[g], g_sequence[g], timestamp)
       IN  /\ g_sequence' = [g_sequence EXCEPT ![g] = r.sequence]
           /\ g_last_timestamp' = [g_last_timestamp EXCEPT ![g] = r.last_timestamp]
           /\ g_tries' = [g_tries EXCEPT ![g] = Min(@ + 1, MaxTries)]
           /\ IF r.branch = "yield"
              THEN /\ g_state' = [g_state EXCEPT ![g] = "suspended"]
                   /\ g_result' = [g_result EXCEPT ![g] = "yield"]
                   /\ g_yielded' = [g_yielded EXCEPT ![g] =
                          GenPack(timestamp, g_epoch[g], g_seed[g], g_pid[g], r.sequence)]
                   /\ g_in_ms' = [g_in_ms EXCEPT ![g] =
                          IF @ > 0 /\ timestamp = g_last_timestamp[g] THEN @ + 1 ELSE 1]
                   /\ UNCHANGED <<g_pc, g_sleep_arg>>
              ELSE /\ g_pc' = [g_pc EXCEPT ![g] = "sleep"]
                   /\ g_sleep_arg' = [g_sleep_arg EXCEPT ![g] = r.sleep]
                   /\ UNCHANGED <<g_state, g_result, g_yielded, g_in_ms>>
    /\ UNCHANGED <<g_epoch, g_pid, g_seed, g_time>>

\* sleep() returns: continue.
GenWake(g) ==
    /\ g_state[g] = "running"
    /\ g_pc[g] = "sleep"
    /\ g_pc' = [g_pc EXCEPT ![g] = "loop"]
    /\ g_sleep_arg' = [g_sleep_arg EXCEPT ![g] = 0]
    /\ UNCHANGED <<g_epoch, g_pid, g_seed, g_state, g_last_timestamp, g_sequence,
                   g_result, g_yielded, g_in_ms, g_tries, g_time>>

\* The clock: any reading may follow any other (advancing, stuck, or backwards).
GenTick ==
    /\ \E t \in 0..MaxMs : t # g_time /\ g_time' = t
    /\ UNCHANGED <<g_epoch, g_pid, g_seed, g_state, g_pc, g_last_timestamp, g_sequence,
                   g_sleep_arg, g_result, g_yielded, g_in_ms, g_tries>>

\* generator(epoch, pid, seed) has been called once: calling a generator
\* function runs none of its body.
GenEpochs == {1}
GenPids == {0, 31}
GenSeeds == {31}

GenInit ==
    /\ g_epoch \in [{1} -> GenEpochs]
    /\ g_pid \in [{1} -> GenPids]
    /\ g_seed \in [{1} -> GenSeeds]
    /\ g_state = [g \in {1} |-> "created"]
    /\ g_pc = [g \in {1} |-> "loop"]
    /\ g_last_timestamp = [g \in {1} |-> -1]
    /\ g_sequence = [g \in {1} |-> 0]
    /\ g_sleep_arg = [g \in {1} |-> 0]
    /\ g_result = [g \in {1} |-> "none"]
    /\ g_yielded = [g \in {1} |-> 0]
    /\ g_in_ms = [g \in {1} |-> 0]
    /\ g_tries = [g \in {1} |-> 0]
    /\ g_time \in 0..MaxMs


\* generator(epoch, pid, seed) has been called twice, with one epoch and two
\* different (pid, seed) pairs.
GenPairInit ==
    /\ g_epoch \in [{1, 2} -> GenEpochs]
    /\ g_pid \in [{1, 2} -> {0, 31}]
    /\ g_seed \in [{1, 2} -> {0, 31}]
    /\ <<g_pid[1], g_seed[1]>> # <<g_pid[2], g_seed[2]>>
    /\ g_state = [g \in {1, 2} |-> "created"]
    /\ g_pc = [g \in {1, 2} |-> "loop"]
    /\ g_last_timestamp = [g \in {1, 2} |-> -1]
    /\ g_sequence = [g \in {1, 2} |-> 0]
    /\ g_sleep_arg = [g \in {1, 2} |-> 0]
    /\ g_result = [g \in {1, 2} |-> "none"]
    /\ g_yielded = [g \in {1, 2} |-> 0]
    /\ g_in_ms = [g \in {1, 2} |-> 0]
    /\ g_tries = [g \in {1, 2} |-> 0]
    /\ g_time \in 0..MaxMs

\* No generator object exists.
GenBlank ==
    /\ g_epoch = <<>> /\ g_pid = <<>> /\ g_seed = <<>>
    /\ g_state = <<>> /\ g_pc = <<>>
    /\ g_last_timestamp = <<>> /\ g_sequence = <<>>
    /\ g_sleep_arg = <<>> /\ g_result = <<>>
    /\ g_yielded = <<>> /\ g_in_ms = <<>> /\ g_tries = <<>>
    /\ g_time = 0

(***************************************************************************)
(* src/pyflaker.py: SnowflakeGenerator guarded by a threading.Lock         *)
(*                                                                         *)
(* A datetime is modelled as its number of microseconds since the Unix     *)
(* epoch: datetimes compare at that resolution.                            *)
(***************************************************************************)
\* Clock readings are MaxMs milliseconds plus 0..MaxUs microseconds at most.
MaxUs == 2
\* Calls of generate() / __next__() one thread makes on the threaded generator.
MaxCalls == 3
\* Calls that two threads make in all.
MaxConcCalls == 2

VARIABLES
    t_ctor,         \* outcome of __init__: "none" (not called), "ok", "ValueError"
    t_epoch,        \* _epoch
    t_process_id,   \* _process_id
    t_thread_id,    \* _thread_id
    t_step,         \* _step
    t_sequence,     \* _sequence
    t_last,         \* _last
    t_closed,       \* _closed.is_set()
    t_lock,         \* _lock: 0 when free, else the thread that acquired it
    t_clock,        \* what datetime.now() returns now
    \* ---- per calling thread
    t_pc,           \* "idle", "generate", "acquire", "loop", "sleep", "set_last", "set_sequence", "pack"
    t_via_next,     \* the running generate() was called by __next__
    t_now,          \* local now
    t_seq,          \* local sequence
    t_sleep_arg,    \* argument of the sleep in progress, in microseconds (0: not sleeping)
    t_result,       \* outcome of the latest call: "none", "return", or the exception raised
    t_ret,          \* the value returned last
    \* ---- history
    t_calls,        \* calls started
    t_max_calls,    \* calls the callers make in all
    t_returned,     \* the values returned, in order
    t_commits,      \* the commits to (_last, _sequence), in order: [th, now, sequence]
    t_waited,       \* per thread: why the running call slept last: "no", "regressed", "exhausted"
    t_began_closed  \* per thread: the generator was closed when the latest call began

t_vars == <<t_ctor, t_epoch, t_process_id, t_thread_id, t_step, t_sequence, t_last,
            t_closed, t_lock, t_clock, t_pc, t_via_next, t_now, t_seq, t_sleep_arg,
            t_result, t_ret, t_calls, t_max_calls, t_returned, t_commits,
            t_waited, t_began_closed>>

t_hist == <<t_waited, t_began_closed>>

t_fields == <<t_ctor, t_epoch, t_process_id, t_thread_id, t_step, t_max_calls>>

process_id_bits == 2^5
thread_id_bits == 2^5
sequence_bits == 2^12

\* res >= snowflake_bits, with snowflake_bits = 2**64, as res >> 64 >= 1.
AtLeastSnowflakeBits(res) == Shr(Shr(Shr(Shr(res, 16), 16), 16), 16) >= 1

\* int(dt.timestamp() * 1000): the datetime in whole milliseconds (int truncates
\* towards zero).
TimestampMs(dt) == IF dt >= 0 THEN dt \div 1000 ELSE -((-dt) \div 1000)

TClockValues == {ms * 1000 + us : ms \in 0..MaxMs, us \in 0..MaxUs}

\* __init__: the exception its checks raise for these arguments, or "none".
TInitRaises(process_id, thread_id, step, sequence) ==
    IF process_id >= process_id_bits THEN "ValueError"
    ELSE IF thread_id >= thread_id_bits THEN "ValueError"
    ELSE IF step < 1 THEN "ValueError"
    ELSE IF step >= sequence_bits THEN "ValueError"
    ELSE IF sequence >= sequence_bits THEN "ValueError"
    ELSE "none"

\* The value of res.
TPack(now, epoch, process_id, thread_id, sequence) ==
    BitOr(BitOr(BitOr(Shl(TimestampMs(now) - TimestampMs(epoch), 22),
                      Shl(process_id, 17)),
                Shl(thread_id, 12)),
          sequence)

\* TLoopBody without the test for a clock that reads earlier than last.
TLoopBodyNoRegress(last, sequence, step, now) ==
    IF last = now
    THEN LET s == BitAnd(sequence + step, sequence_bits - 1) IN
         IF s = 0
         THEN [branch |-> "exhausted", sleep |-> step * 1000, sequence |-> s]
         ELSE [branch |-> "commit", sleep |-> 0, sequence |-> s]
    ELSE [branch |-> "commit", sleep |-> 0, sequence |-> 0]

\* One iteration of generate()'s loop up to the sleep or to the two assignments.
TLoopBody(last, sequence, step, now) ==
    IF last > now
    THEN [branch |-> "regressed", sleep |-> last - now, sequence |-> 0]
    ELSE IF last = now
    THEN LET s == BitAnd(sequence + step, sequence_bits - 1) IN
         IF s = 0
         THEN [branch |-> "exhausted", sleep |-> step * 1000, sequence |-> s]
         ELSE [branch |-> "commit", sleep |-> 0, sequence |-> s]
    ELSE [branch |-> "commit", sleep |-> 0, sequence |-> 0]

\* An exception leaves the call; __next__ turns generate()'s RuntimeError and
\* ValueError into StopIteration.
TRaise(th, exc) ==
    /\ t_pc' = [t_pc EXCEPT ![th] = "idle"]
    /\ t_now' = [t_now EXCEPT ![th] = 0]
    /\ t_seq' = [t_seq EXCEPT ![th] = 0]
    /\ t_result' = [t_result EXCEPT ![th] =
           IF t_via_next[th] /\ exc \in {"RuntimeError", "ValueError"}
           THEN "StopIteration" ELSE exc]

\* SnowflakeGenerator(epoch, process_id, thread_id, step, sequence, last);
\* last is None when no_last.  A constructor that raises leaves no generator.
TNew(epoch, process_id, thread_id, step, sequence, last, no_last) ==
    /\ t_ctor = "none"
    /\ LET exc == TInitRaises(process_id, thread_id, step, sequence) IN
       IF exc = "none"
       THEN /\ t_ctor' = "ok"
            /\ t_epoch' = epoch
            /\ t_process_id' = process_id
            /\ t_thread_id' = thread_id
            /\ t_step' = step
            /\ t_sequence' = sequence
            /\ t_last' = IF no_last THEN t_clock ELSE last
       ELSE /\ t_ctor' = exc
            /\ UNCHANGED <<t_epoch, t_process_id, t_thread_id, t_step, t_sequence, t_last>>
    /\ UNCHANGED <<t_hist, t_max_calls, t_closed, t_lock, t_clock, t_pc, t_via_next, t_now, t_seq,
                   t_sleep_arg, t_result, t_ret, t_calls, t_returned, t_commits>>

\* A thread calls generate().
TGenerate(th) ==
    /\ t_ctor = "ok"
    /\ t_pc[th] = "idle"
    /\ t_calls < t_max_calls
    /\ t_calls' = t_calls + 1
    /\ t_pc' = [t_pc EXCEPT ![th] = "generate"]
    /\ t_via_next' = [t_via_next EXCEPT ![th] = FALSE]
    /\ t_result' = [t_result EXCEPT ![th] = "none"]
    /\ t_waited' = [t_waited EXCEPT ![th] = "no"]
    /\ t_began_closed' = [t_began_closed EXCEPT ![th] = t_closed]
    /\ UNCHANGED <<t_fields, t_sequence, t_last, t_closed, t_lock, t_clock, t_now,
                   t_seq, t_sleep_arg, t_ret, t_returned, t_commits>>

\* A thread calls __next__(): StopIteration when closed, else it calls generate().
TNext(th) ==
    /\ t_ctor = "ok"
    /\ t_pc[th] = "idle"
    /\ t_calls < t_max_calls
    /\ t_calls' = t_calls + 1
    /\ t_via_next' = [t_via_next EXCEPT ![th] = TRUE]
    /\ IF t_closed
       THEN /\ t_pc' = t_pc
            /\ t_result' = [t_result EXCEPT ![th] = "StopIteration"]
       ELSE /\ t_pc' = [t_pc EXCEPT ![th] = "generate"]
            /\ t_result' = [t_result EXCEPT ![th] = "none"]
    /\ t_waited' = [t_waited EXCEPT ![th] = "no"]
    /\ t_began_closed' = [t_began_closed EXCEPT ![th] = t_closed]
    /\ UNCHANGED <<t_fields, t_sequence, t_last, t_closed, t_lock, t_clock, t_now,
                   t_seq, t_sleep_arg, t_ret, t_returned, t_commits>>

\* TEnter without the test of closed.
TEnterNoClosedCheck(th) ==
    /\ t_pc[th] = "generate"
    /\ t_pc' = [t_pc EXCEPT ![th] = "acquire"]
    /\ UNCHANGED <<t_result, t_now, t_seq>>
    /\ UNCHANGED <<t_fields, t_hist, t_sequence, t_last, t_closed, t_lock, t_clock, t_via_next,
                   t_sleep_arg, t_ret, t_calls, t_returned, t_commits>>

\* generate(), its first statement: raise when closed.
TEnter(th) ==
    /\ t_pc[th] = "generate"
    /\ IF t_closed
       THEN TRaise(th, "RuntimeError")
       ELSE /\ t_pc' = [t_pc EXCEPT ![th] = "acquire"]
            /\ UNCHANGED <<t_result, t_now, t_seq>>
    /\ UNCHANGED <<t_fields, t_hist, t_sequence, t_last, t_closed, t_lock, t_clock, t_via_next,
                   t_sleep_arg, t_ret, t_calls, t_returned, t_commits>>

\* TAcquire that does not wait for the lock to be free.
TAcquireNoWait(th) ==
    /\ t_pc[th] = "acquire"
    /\ t_lock' = th
    /\ t_pc' = [t_pc EXCEPT ![th] = "loop"]
    /\ UNCHANGED <<t_fields, t_hist, t_sequence, t_last, t_closed, t_clock, t_via_next, t_now,
                   t_seq, t_sleep_arg, t_result, t_ret, t_calls, t_returned, t_commits>>

\* self._lock.acquire(): blocks while another thread holds the lock.
TAcquire(th) ==
    /\ t_pc[th] = "acquire"
    /\ t_lock = 0
    /\ t_lock' = th
    /\ t_pc' = [t_pc EXCEPT ![th] = "loop"]
    /\ UNCHANGED <<t_fields, t_hist, t_sequence, t_last, t_closed, t_clock, t_via_next, t_now,
                   t_seq, t_sleep_arg, t_result, t_ret, t_calls, t_returned, t_commits>>

\* One loop iteration: read the clock, compare with last, then sleep or go on
\* to the assignments.
TLoop(th) ==
    /\ t_pc[th] = "loop"
    /\ LET r == TLoopBody(t_last, t_sequence, t_step, t_clock) IN
       /\ t_now' = [t_now EXCEPT ![th] = t_clock]
       /\ IF r.branch = "commit"
          THEN /\ t_seq' = [t_seq EXCEPT ![th] = r.sequence]
               /\ t_pc' = [t_pc EXCEPT ![th] = "set_last"]
               /\ UNCHANGED <<t_sleep_arg, t_waited>>
          ELSE /\ t_seq' = IF r.branch = "exhausted"
                           THEN [t_seq EXCEPT ![th] = r.sequence] ELSE t_seq
               /\ t_pc' = [t_pc EXCEPT ![th] = "sleep"]
               /\ t_sleep_arg' = [t_sleep_arg EXCEPT ![th] = r.sleep]
               /\ t_waited' = [t_waited EXCEPT ![th] = r.branch]
    /\ UNCHANGED <<t_fields, t_began_closed, t_sequence, t_last, t_closed, t_lock, t_clock, t_via_next,
                   t_result, t_ret, t_calls, t_returned, t_commits>>

\* sleep() returns: continue.
TWake(th) ==
    /\ t_pc[th] = "sleep"
    /\ t_pc' = [t_pc EXCEPT ![th] = "loop"]
    /\ t_sleep_arg' = [t_sleep_arg EXCEPT ![th] = 0]
    /\ UNCHANGED <<t_fields, t_hist, t_sequence, t_last, t_closed, t_lock, t_clock, t_via_next,
                   t_now, t_seq, t_result, t_ret, t_calls, t_returned, t_commits>>

\* self.last = now, through the setter, which raises on a closed generator.
TSetLast(th) ==
    /\ t_pc[th] = "set_last"
    /\ IF t_closed
       THEN /\ TRaise(th, "RuntimeError")
            /\ t_last' = t_last
       ELSE /\ t_last' = t_now[th]
            /\ t_pc' = [t_pc EXCEPT ![th] = "set_sequence"]
            /\ UNCHANGED <<t_result, t_now, t_seq>>
    /\ UNCHANGED <<t_fields, t_hist, t_sequence, t_closed, t_lock, t_clock, t_via_next,
                   t_sleep_arg, t_ret, t_calls, t_returned, t_commits>>

\* self.sequence = sequence, through the setter, which raises on a closed
\* generator and on a value of 4096 or more.
TSetSequence(th) ==
    /\ t_pc[th] = "set_sequence"
    /\ IF t_closed
       THEN /\ TRaise(th, "RuntimeError")
            /\ UNCHANGED <<t_sequence, t_commits>>
       ELSE IF t_seq[th] >= sequence_bits
       THEN /\ TRaise(th, "ValueError")
            /\ UNCHANGED <<t_sequence, t_commits>>
       ELSE /\ t_sequence' = t_seq[th]
            /\ t_commits' = Append(t_commits, [th |-> th, now |-> t_now[th], sequence |-> t_seq[th]])
            /\ t_pc' = [t_pc EXCEPT ![th] = "pack"]
            /\ UNCHANGED <<t_result, t_now, t_seq>>
    /\ UNCHANGED <<t_fields, t_hist, t_last, t_closed, t_lock, t_clock, t_via_next,
                   t_sleep_arg, t_ret, t_calls, t_returned>>

\* From the break to the end: compute res, release the lock, return res unless
\* it is 2**64 or more.
TReturn(th) ==
    /\ t_pc[th] = "pack"
    /\ LET res == TPack(t_now[th], t_epoch, t_process_id, t_thread_id, t_seq[th]) IN
       /\ t_lock' = 0
       /\ IF AtLeastSnowflakeBits(res)
          THEN /\ TRaise(th, "ValueError")
               /\ UNCHANGED <<t_ret, t_returned>>
          ELSE /\ t_pc' = [t_pc EXCEPT ![th] = "idle"]
               /\ t_now' = [t_now EXCEPT ![th] = 0]
               /\ t_seq' = [t_seq EXCEPT ![th] = 0]
               /\ t_result' = [t_result EXCEPT ![th] = "return"]
               /\ t_ret' = [t_ret EXCEPT ![th] = res]
               /\ t_returned' = Append(t_returned, res)
    /\ UNCHANGED <<t_fields, t_hist, t_sequence, t_last, t_closed, t_clock, t_via_next,
                   t_sleep_arg, t_calls, t_commits>>

\* A caller assigns generator.sequence = value: the setter is public and takes
\* no lock.
TAssignSequence(th, value) ==
    /\ t_ctor = "ok"
    /\ t_pc[th] = "idle"
    /\ IF t_closed
       THEN t_result' = [t_result EXCEPT ![th] = "RuntimeError"] /\ t_sequence' = t_sequence
       ELSE IF value >= sequence_bits
       THEN t_result' = [t_result EXCEPT ![th] = "ValueError"] /\ t_sequence' = t_sequence
       ELSE t_result' = [t_result EXCEPT ![th] = "none"] /\ t_sequence' = value
    /\ UNCHANGED <<t_fields, t_hist, t_last, t_closed, t_lock, t_clock, t_pc, t_via_next,
                   t_now, t_seq, t_sleep_arg, t_ret, t_calls, t_returned, t_commits>>

\* A caller assigns generator.last = value, a datetime.
TAssignLast(th, value) ==
    /\ t_ctor = "ok"
    /\ t_pc[th] = "idle"
    /\ IF t_closed
       THEN t_result' = [t_result EXCEPT ![th] = "RuntimeError"] /\ t_last' = t_last
       ELSE t_result' = [t_result EXCEPT ![th] = "none"] /\ t_last' = value
    /\ UNCHANGED <<t_fields, t_hist, t_sequence, t_closed, t_lock, t_clock, t_pc, t_via_next,
                   t_now, t_seq, t_sleep_arg, t_ret, t_calls, t_returned, t_commits>>

\* close()
TClose ==
    /\ t_ctor = "ok"
    /\ t_closed' = TRUE
    /\ UNCHANGED <<t_fields, t_hist, t_sequence, t_last, t_lock, t_clock, t_pc, t_via_next,
                   t_now, t_seq, t_sleep_arg, t_result, t_ret, t_calls, t_returned,
                   t_commits>>

\* The clock: any reading may follow any other.
TTick(readings) ==
    /\ \E c \in readings : c # t_clock /\ t_clock' = c
    /\ UNCHANGED <<t_fields, t_hist, t_sequence, t_last, t_closed, t_lock, t_pc, t_via_next,
                   t_now, t_seq, t_sleep_arg, t_result, t_ret, t_calls, t_returned,
                   t_commits>>

\* No generator yet, and the threads that will call it.
TBlank(threads) ==
    /\ t_ctor = "none"
    /\ t_max_calls = 0
    /\ t_epoch = 0 /\ t_process_id = 0 /\ t_thread_id = 0 /\ t_step = 0
    /\ t_sequence = 0 /\ t_last = 0
    /\ t_closed = FALSE
    /\ t_lock = 0
    /\ t_pc = [th \in threads |-> "idle"]
    /\ t_via_next = [th \in threads |-> FALSE]
    /\ t_now = [th \in threads |-> 0]
    /\ t_seq = [th \in threads |-> 0]
    /\ t_sleep_arg = [th \in threads |-> 0]
    /\ t_result = [th \in threads |-> "none"]
    /\ t_ret = [th \in threads |-> 0]
    /\ t_calls = 0
    /\ t_returned = <<>>
    /\ t_commits = <<>>
    /\ t_waited = [th \in threads |-> "no"]
    /\ t_began_closed = [th \in threads |-> FALSE]

\* The state after a constructor call that raised nothing.
TReady(threads, calls, epochs, process_ids, thread_ids, steps, sequences, lasts) ==
    /\ t_ctor = "ok"
    /\ t_max_calls = calls
    /\ t_epoch \in epochs
    /\ t_process_id \in process_ids
    /\ t_thread_id \in thread_ids
    /\ t_step \in steps
    /\ t_sequence \in sequences
    /\ t_last \in lasts
    /\ TInitRaises(t_process_id, t_thread_id, t_step, t_sequence) = "none"
    /\ t_closed = FALSE
    /\ t_lock = 0
    /\ t_pc = [th \in threads |-> "idle"]
    /\ t_via_next = [th \in threads |-> FALSE]
    /\ t_now = [th \in threads |-> 0]
    /\ t_seq = [th \in threads |-> 0]
    /\ t_sleep_arg = [th \in threads |-> 0]
    /\ t_result = [th \in threads |-> "none"]
    /\ t_ret = [th \in threads |-> 0]
    /\ t_calls = 0
    /\ t_returned = <<>>
    /\ t_commits = <<>>
    /\ t_waited = [th \in threads |-> "no"]
    /\ t_began_closed = [th \in threads |-> FALSE]

(***************************************************************************)
(* src/main.py: class Snowflake, the client around one generator           *)
(***************************************************************************)
\* Calls of generate() made on the client.
MaxClientCalls == 2

VARIABLES
    c_state,        \* "none" (no client yet) or "constructed"
    c_epoch,        \* self.epoch
    c_generator,    \* self.generator: a generator object's id, 0 when the attribute is absent
    c_result,       \* outcome of the client's latest method call: "none", "ok", or the exception
    c_calls,        \* history: calls of generate() started
    c_op,           \* history: the method called last
    c_args,         \* history: the (pid, seed) given to the latest new, create or renew
    c_timestamp     \* the value the latest to_timestamp() returned (0: none)

c_vars == <<c_state, c_epoch, c_generator, c_result, c_calls, c_op, c_args,
            c_timestamp>>

\* f with key k added (or replaced), holding v.
Ext(f, k, v) == [x \in DOMAIN f \cup {k} |-> IF x = k THEN v ELSE f[x]]

\* generator(epoch, pid, seed) is called: a new generator object, none of whose
\* body has run.
GenCreate(g, epoch, pid, seed) ==
    /\ g_epoch' = Ext(g_epoch, g, epoch)
    /\ g_pid' = Ext(g_pid, g, pid)
    /\ g_seed' = Ext(g_seed, g, seed)
    /\ g_state' = Ext(g_state, g, "created")
    /\ g_pc' = Ext(g_pc, g, "loop")
    /\ g_last_timestamp' = Ext(g_last_timestamp, g, -1)
    /\ g_sequence' = Ext(g_sequence, g, 0)
    /\ g_sleep_arg' = Ext(g_sleep_arg, g, 0)
    /\ g_result' = Ext(g_result, g, "none")
    /\ g_yielded' = Ext(g_yielded, g, 0)
    /\ g_in_ms' = Ext(g_in_ms, g, 0)
    /\ g_tries' = Ext(g_tries, g, 0)
    /\ g_time' = g_time

\* The client's methods are called one after the other: none is called while
\* a generate() call is still inside the generator.
ClientIdle ==
    /\ c_state = "constructed"
    /\ \A g \in DOMAIN g_state : g_state[g] # "running"

\* Snowflake(epoch, pid, seed)
ClientNew(epoch, pid, seed) ==
    /\ c_state = "none"
    /\ c_state' = "constructed"
    /\ c_epoch' = epoch
    /\ LET g == Cardinality(DOMAIN g_state) + 1 IN
       /\ GenCreate(g, c_epoch', pid, seed)
       /\ c_generator' = g
    /\ c_result' = "ok"
    /\ c_calls' = c_calls
    /\ c_op' = "new"
    /\ c_args' = [pid |-> pid, seed |-> seed]
    /\ c_timestamp' = c_timestamp

\* Snowflake.generate(): next(self.generator).  The call returns when the
\* generator yields or raises; reading an absent attribute raises
\* AttributeError.
ClientGenerate ==
    /\ ClientIdle
    /\ c_calls < MaxClientCalls
    /\ IF c_generator # 0
       THEN /\ GenNext(c_generator)
            /\ c_result' = "none"
       ELSE /\ c_result' = "AttributeError"
            /\ UNCHANGED g_vars
    /\ c_calls' = c_calls + 1
    /\ c_op' = "generate"
    /\ UNCHANGED <<c_state, c_epoch, c_generator, c_args, c_timestamp>>

\* Snowflake.destroy(): getattr(self, 'generator') has no default, so it raises
\* AttributeError when the attribute is absent; a generator object is true.
ClientDestroy ==
    /\ ClientIdle
    /\ IF c_generator # 0
       THEN c_generator' = 0 /\ c_result' = "ok"
       ELSE c_generator' = c_generator /\ c_result' = "AttributeError"
    /\ c_op' = "destroy"
    /\ UNCHANGED <<c_state, c_epoch, c_calls, c_args, c_timestamp, g_vars>>

\* Snowflake.create(pid, seed): the same getattr raises when the attribute is
\* absent, and `not` of a generator object is False: generator() is never
\* called.
ClientCreate(pid, seed) ==
    /\ ClientIdle
    /\ c_result' = IF c_generator # 0 THEN "ok" ELSE "AttributeError"
    /\ c_op' = "create"
    /\ c_args' = [pid |-> pid, seed |-> seed]
    /\ UNCHANGED <<c_state, c_epoch, c_generator, c_calls, c_timestamp, g_vars>>

\* Snowflake.renew(pid, seed): destroy(), then create(pid, seed) unless
\* destroy() raised.  After a destroy() that returned the attribute is absent,
\* so create() raises.
ClientRenew(pid, seed) ==
    /\ ClientIdle
    /\ c_generator' = 0
    /\ c_result' = "AttributeError"
    /\ c_op' = "renew"
    /\ c_args' = [pid |-> pid, seed |-> seed]
    /\ UNCHANGED <<c_state, c_epoch, c_calls, c_timestamp, g_vars>>

\* Snowflake.to_timestamp has the parameters (_id, fmt) and no self.  Called on
\* the client with the value yielded last and a format, it is passed three
\* arguments and raises TypeError before its body runs; called on the class,
\* its body shifts _id and then reads the undefined name self.
ClientToTimestamp(bound, fmt) ==
    /\ ClientIdle
    /\ c_generator # 0
    /\ g_result[c_generator] = "yield"
    /\ c_result' = IF bound THEN "TypeError" ELSE "NameError"
    /\ c_op' = "to_timestamp"
    /\ UNCHANGED <<c_state, c_epoch, c_generator, c_calls, c_args, c_timestamp, g_vars>>

ClientBlank ==
    /\ c_state = "none"
    /\ c_epoch = 0
    /\ c_generator = 0
    /\ c_result = "none"
    /\ c_calls = 0
    /\ c_op = "none"
    /\ c_args = [pid |-> 0, seed |-> 0]
    /\ c_timestamp = 0

(***************************************************************************)
(* src/src/main.py: SnowflakeGenerator configured by SnowflakeGeneratorMeta *)
(*                                                                         *)
(* generate() takes no lock.  Each step below is one statement's access to *)
(* _last_timestamp or _sequence, so that threads interleave between them.  *)
(***************************************************************************)
\* Calls each of two concurrent threads makes.
MaxMetaCalls == 2

VARIABLES
    m_epoch,            \* _epoch, the class attribute the metaclass sets
    m_process_id,       \* _process_id
    m_worker_id,        \* _worker_id
    m_last_timestamp,   \* _last_timestamp
    m_sequence,         \* _sequence
    m_clock,            \* what timestamp() returns now
    \* ---- per calling thread
    m_pc,               \* "idle", "now", "lt", "eq", "load", "store", "zero", "reset", "set_last", "ret", "sleep"
    m_now,              \* local now
    m_tmp,              \* the value of self._sequence loaded by the increment
    m_result,           \* outcome of the latest call: "none" or "return"
    m_ret,              \* the value returned last
    m_left,             \* calls the thread may still start; -1: any number
    \* ---- history
    m_hist_ts,          \* timestamp of the value returned last, by any thread
    m_in_ms             \* how many values in a row were returned with that timestamp, up to 4097

m_vars == <<m_epoch, m_process_id, m_worker_id, m_last_timestamp, m_sequence, m_clock,
            m_pc, m_now, m_tmp, m_result, m_ret, m_left, m_hist_ts, m_in_ms>>

m_fields == <<m_epoch, m_process_id, m_worker_id>>

\* The returned expression.
MPack(now, epoch, worker_id, process_id, sequence) ==
    BitOr(BitOr(BitOr(Shl(now - epoch, 22), Shl(worker_id, 17)),
                Shl(process_id, 12)),
          sequence)

\* A thread calls generate(): now = -1.
MGenerate(th) ==
    /\ m_pc[th] = "idle"
    /\ m_left[th] # 0
    /\ m_left' = [m_left EXCEPT ![th] = IF @ > 0 THEN @ - 1 ELSE @]
    /\ m_pc' = [m_pc EXCEPT ![th] = "now"]
    /\ m_now' = [m_now EXCEPT ![th] = -1]
    /\ m_result' = [m_result EXCEPT ![th] = "none"]
    /\ UNCHANGED <<m_fields, m_last_timestamp, m_sequence, m_clock, m_tmp, m_ret,
                   m_hist_ts, m_in_ms>>

\* now = timestamp()
MNow(th) ==
    /\ m_pc[th] = "now"
    /\ m_now' = [m_now EXCEPT ![th] = m_clock]
    /\ m_pc' = [m_pc EXCEPT ![th] = "lt"]
    /\ UNCHANGED <<m_fields, m_last_timestamp, m_sequence, m_clock, m_tmp, m_result,
                   m_ret, m_left, m_hist_ts, m_in_ms>>

\* if now < self._last_timestamp: sleep(1/1000); continue
MCompareLess(th) ==
    /\ m_pc[th] = "lt"
    /\ m_pc' = [m_pc EXCEPT ![th] =
           IF m_now[th] < m_last_timestamp THEN "sleep" ELSE "eq"]
    /\ UNCHANGED <<m_fields, m_last_timestamp, m_sequence, m_clock, m_now, m_tmp,
                   m_result, m_ret, m_left, m_hist_ts, m_in_ms>>

\* if now == self._last_timestamp: ... else: ...
MCompareEqual(th) ==
    /\ m_pc[th] = "eq"
    /\ m_pc' = [m_pc EXCEPT ![th] =
           IF m_now[th] = m_last_timestamp THEN "load" ELSE "reset"]
    /\ UNCHANGED <<m_fields, m_last_timestamp, m_sequence, m_clock, m_now, m_tmp,
                   m_result, m_ret, m_left, m_hist_ts, m_in_ms>>

\* self._sequence = (self._sequence + 1) & 0xFFF, the read of self._sequence
MLoadSequence(th) ==
    /\ m_pc[th] = "load"
    /\ m_tmp' = [m_tmp EXCEPT ![th] = m_sequence]
    /\ m_pc' = [m_pc EXCEPT ![th] = "store"]
    /\ UNCHANGED <<m_fields, m_last_timestamp, m_sequence, m_clock, m_now, m_result,
                   m_ret, m_left, m_hist_ts, m_in_ms>>

\* self._sequence = (self._sequence + 1) & 0xFFF, the assignment
MStoreSequence(th) ==
    /\ m_pc[th] = "store"
    /\ m_sequence' = BitAnd(m_tmp[th] + 1, 4095)
    /\ m_tmp' = [m_tmp EXCEPT ![th] = 0]
    /\ m_pc' = [m_pc EXCEPT ![th] = "zero"]
    /\ UNCHANGED <<m_fields, m_last_timestamp, m_clock, m_now, m_result, m_ret, m_left,
                   m_hist_ts, m_in_ms>>

\* if self._sequence == 0: sleep(1/1000); continue
MCheckZero(th) ==
    /\ m_pc[th] = "zero"
    /\ m_pc' = [m_pc EXCEPT ![th] = IF m_sequence = 0 THEN "sleep" ELSE "set_last"]
    /\ UNCHANGED <<m_fields, m_last_timestamp, m_sequence, m_clock, m_now, m_tmp,
                   m_result, m_ret, m_left, m_hist_ts, m_in_ms>>

\* else: self._sequence = 0
MReset(th) ==
    /\ m_pc[th] = "reset"
    /\ m_sequence' = 0
    /\ m_pc' = [m_pc EXCEPT ![th] = "set_last"]
    /\ UNCHANGED <<m_fields, m_last_timestamp, m_clock, m_now, m_tmp, m_result, m_ret,
                   m_left, m_hist_ts, m_in_ms>>

\* self._last_timestamp = now; break
MSetLast(th) ==
    /\ m_pc[th] = "set_last"
    /\ m_last_timestamp' = m_now[th]
    /\ m_pc' = [m_pc EXCEPT ![th] = "ret"]
    /\ UNCHANGED <<m_fields, m_sequence, m_clock, m_now, m_tmp, m_result, m_ret, m_left,
                   m_hist_ts, m_in_ms>>

\* The return statement: it reads self._sequence once more.
MReturn(th) ==
    /\ m_pc[th] = "ret"
    /\ m_ret' = [m_ret EXCEPT ![th] =
           MPack(m_now[th], m_epoch, m_worker_id, m_process_id, m_sequence)]
    /\ m_result' = [m_result EXCEPT ![th] = "return"]
    /\ m_pc' = [m_pc EXCEPT ![th] = "idle"]
    /\ m_hist_ts' = m_now[th]
    /\ m_in_ms' = IF m_in_ms > 0 /\ m_hist_ts = m_now[th]
                  THEN Min(m_in_ms + 1, 2^12 + 1) ELSE 1
    /\ m_now' = [m_now EXCEPT ![th] = 0]
    /\ UNCHANGED <<m_fields, m_last_timestamp, m_sequence, m_clock, m_tmp, m_left>>

\* sleep(1/1000) returns: continue.
MWake(th) ==
    /\ m_pc[th] = "sleep"
    /\ m_pc' = [m_pc EXCEPT ![th] = "now"]
    /\ UNCHANGED <<m_fields, m_last_timestamp, m_sequence, m_clock, m_now, m_tmp,
                   m_result, m_ret, m_left, m_hist_ts, m_in_ms>>

\* The clock: any reading may follow any other.
MTick ==
    /\ \E c \in 0..MaxMs : c # m_clock /\ m_clock' = c
    /\ UNCHANGED <<m_fields, m_last_timestamp, m_sequence, m_pc, m_now, m_tmp, m_result,
                   m_ret, m_left, m_hist_ts, m_in_ms>>

\* SnowflakeGenerator(process_id, worker_id) has returned; `threads` will call
\* generate(), `calls` times each (-1: any number of times).
MReady(threads, calls, epochs, process_ids, worker_ids) ==
    /\ m_epoch \in epochs
    /\ m_process_id \in process_ids
    /\ m_worker_id \in worker_ids
    /\ m_last_timestamp = -1
    /\ m_sequence = 0
    /\ m_pc = [th \in threads |-> "idle"]
    /\ m_now = [th \in threads |-> 0]
    /\ m_tmp = [th \in threads |-> 0]
    /\ m_result = [th \in threads |-> "none"]
    /\ m_ret = [th \in threads |-> 0]
    /\ m_left = [th \in threads |-> calls]
    /\ m_hist_ts = 0
    /\ m_in_ms = 0

\* No generator is in use.
MBlank == MReady({}, 0, {0}, {0}, {0}) /\ m_clock = 0

(***************************************************************************)
(* src/pyflaker/generator.py: SnowflakeGenerator of the package, which      *)
(* returns Snowflake objects (src/pyflaker/snowflake.py)                    *)
(*                                                                         *)
(* Datetimes are microseconds, as for src/pyflaker.py.                      *)
(***************************************************************************)
\* Calls of generate() made on the package's generator.
MaxPkgCalls == 3

VARIABLES
    p_epoch,        \* epoch
    p_salt,         \* salt
    p_sequence,     \* sequence
    p_last_time,    \* last_time
    p_lock,         \* lock: 0 when free, else the thread inside `with self.lock`
    p_clock,        \* what datetime.utcnow() returns now
    \* ---- per calling thread
    p_pc,           \* "idle", "acquire", "loop", "sleep", "construct"
    p_result,       \* outcome of the latest call: "none", "return", or the exception raised
    p_ret,          \* int() of the Snowflake returned last
    p_calls,        \* history: calls started
    p_waited        \* history, per thread: why the running call slept last: "no", "regressed", "overflow"

p_vars == <<p_epoch, p_salt, p_sequence, p_last_time, p_lock, p_clock, p_pc, p_result,
            p_ret, p_calls, p_waited>>

p_fields == <<p_epoch, p_salt>>

\* x & ((1 << bits) - 1) for the values of the model, which are below 2^31: a
\* mask of more than 30 one bits keeps a value that is not negative as it is.
AndLowBits(x, bits) ==
    IF bits > 30 /\ x >= 0 THEN x ELSE BitAnd(x, 2^bits - 1)

\* One iteration of generate()'s loop, up to the sleep or to the break.  The
\* mask is (1 << 2**10) - 1, of 1024 bits, and the overflow test reads
\* self.sequence, not the incremented value.
PkgLoopBody(last_time, sequence, now) ==
    IF now < last_time
    THEN [branch |-> "regressed", sequence |-> sequence, last_time |-> last_time]
    ELSE IF now = last_time
    THEN IF sequence = 0
         THEN [branch |-> "overflow", sequence |-> sequence, last_time |-> last_time]
         ELSE [branch |-> "break", sequence |-> AndLowBits(sequence + 1, 2^10),
               last_time |-> now]
    ELSE [branch |-> "break", sequence |-> 0, last_time |-> now]

\* A thread calls generate().
PkgGenerate(th) ==
    /\ p_pc[th] = "idle"
    /\ p_calls < MaxPkgCalls
    /\ p_calls' = p_calls + 1
    /\ p_pc' = [p_pc EXCEPT ![th] = "acquire"]
    /\ p_result' = [p_result EXCEPT ![th] = "none"]
    /\ p_waited' = [p_waited EXCEPT ![th] = "no"]
    /\ UNCHANGED <<p_fields, p_sequence, p_last_time, p_lock, p_clock, p_ret>>

\* with self.lock: blocks while another thread holds the lock.
PkgAcquire(th) ==
    /\ p_pc[th] = "acquire"
    /\ p_lock = 0
    /\ p_lock' = th
    /\ p_pc' = [p_pc EXCEPT ![th] = "loop"]
    /\ UNCHANGED <<p_fields, p_sequence, p_last_time, p_clock, p_result, p_ret, p_calls,
                   p_waited>>

\* One loop iteration: read the clock, then sleep or update sequence and
\* last_time and break.
PkgLoop(th) ==
    /\ p_pc[th] = "loop"
    /\ LET r == PkgLoopBody(p_last_time, p_sequence, p_clock) IN
       /\ p_sequence' = r.sequence
       /\ p_last_time' = r.last_time
       /\ p_pc' = [p_pc EXCEPT ![th] = IF r.branch = "break" THEN "construct" ELSE "sleep"]
       /\ p_waited' = IF r.branch = "break" THEN p_waited
                      ELSE [p_waited EXCEPT ![th] = r.branch]
    /\ UNCHANGED <<p_fields, p_lock, p_clock, p_result, p_ret, p_calls>>

\* sleep() returns: continue.
PkgWake(th) ==
    /\ p_pc[th] = "sleep"
    /\ p_pc' = [p_pc EXCEPT ![th] = "loop"]
    /\ UNCHANGED <<p_fields, p_sequence, p_last_time, p_lock, p_clock, p_result, p_ret,
                   p_calls, p_waited>>

\* snowflake = Snowflake(...): generator.py does not import the name Snowflake
\* (it only appears in an annotation), so the call raises NameError; leaving the
\* with block releases the lock.
PkgConstruct(th) ==
    /\ p_pc[th] = "construct"
    /\ p_lock' = 0
    /\ p_pc' = [p_pc EXCEPT ![th] = "idle"]
    /\ p_result' = [p_result EXCEPT ![th] = "NameError"]
    /\ UNCHANGED <<p_fields, p_sequence, p_last_time, p_clock, p_ret, p_calls, p_waited>>

\* The clock: any reading may follow any other.
PkgTick ==
    /\ \E c \in TClockValues : c # p_clock /\ p_clock' = c
    /\ UNCHANGED <<p_fields, p_sequence, p_last_time, p_lock, p_pc, p_result, p_ret,
                   p_calls, p_waited>>

\* SnowflakeGenerator(epoch, salt, sequence) has returned: last_time is the
\* epoch.
PkgReady(threads, epochs, salts, sequences) ==
    /\ p_epoch \in epochs
    /\ p_salt \in salts
    /\ p_sequence \in sequences
    /\ p_last_time = p_epoch
    /\ p_lock = 0
    /\ p_pc = [th \in threads |-> "idle"]
    /\ p_result = [th \in threads |-> "none"]
    /\ p_ret = [th \in threads |-> 0]
    /\ p_calls = 0
    /\ p_waited = [th \in threads |-> "no"]

\* No generator of the package is in use.
PkgBlank == PkgReady({}, {0}, {0}, {0}) /\ p_clock = 0

(***************************************************************************)
(* src/src/__init__.py: the asyncio SnowflakeGenerator                      *)
(*                                                                         *)
(* Tasks run on one event loop: a task runs without interruption from one  *)
(* suspension to the next, and generate() suspends only in the sleeps of   *)
(* generate_snowflake (asyncio.Lock.acquire does not suspend on a free     *)
(* lock).  Datetimes are microseconds.                                     *)
(***************************************************************************)
\* Calls of generate() the tasks make in all.
MaxAsyncCalls == 3

VARIABLES
    a_frozen,           \* _frozen
    a_epoch,            \* epoch
    a_worker_id,        \* worker_id
    a_process_id,       \* process_id
    a_sequence,         \* _sequence
    a_last_timestamp,   \* _last_timestamp
    a_lock,             \* __lock: 0 when free, else the task that acquired it
    a_locked_ev,        \* _locked.is_set()
    a_unlocked_ev,      \* _unlocked.is_set()
    a_counter,          \* _counter._value
    a_clock,            \* what datetime.utcnow() returns now
    \* ---- per task
    a_pc,               \* "idle" or "sleep" (suspended in a sleep of generate_snowflake)
    a_arg_last,         \* generate_snowflake's parameter last_timestamp
    a_arg_sequence,     \* generate_snowflake's parameter sequence
    a_result,           \* outcome of the latest call: "none", "return", or the exception raised
    a_ret,              \* the value returned last
    a_calls,            \* history: calls started
    a_op                \* history: <<task, method>> of the call started last

a_vars == <<a_frozen, a_epoch, a_worker_id, a_process_id, a_sequence, a_last_timestamp,
            a_lock, a_locked_ev, a_unlocked_ev, a_counter, a_clock, a_pc, a_arg_last,
            a_arg_sequence, a_result, a_ret, a_calls, a_op>>

a_fields == <<a_frozen, a_epoch, a_worker_id, a_process_id>>

\* int(x / 1000): truncation towards zero.
TruncMs(x) == IF x >= 0 THEN x \div 1000 ELSE -((-x) \div 1000)

\* The first element of the tuple generate_snowflake returns: the two
\* timestamps are subtracted as fractions of milliseconds before int() truncates.
AsyncPack(now, epoch, worker_id, process_id, sequence) ==
    BitOr(BitOr(BitOr(Shl(TruncMs(now - epoch), 22), Shl(worker_id, 17)),
                Shl(process_id, 12)),
          sequence)

\* One iteration of generate_snowflake's loop, up to the sleep or to the break.
AsyncLoopBody(last_timestamp, sequence, now) ==
    IF last_timestamp > now
    THEN [branch |-> "regressed", sequence |-> sequence]
    ELSE IF last_timestamp = now
    THEN LET s == BitAnd(sequence + 1, 4095) IN
         [branch |-> IF s = 0 THEN "exhausted" ELSE "break", sequence |-> s]
    ELSE [branch |-> "break", sequence |-> 0]

\* Task tk runs one iteration of generate_snowflake with the clock reading
\* a_clock.  It suspends in a sleep, or generate_snowflake returns and
\* generate() goes on to its end without suspending: it stores the timestamp
\* and the sequence, releases _counter, unlocks and returns the ID.
AsyncIterate(tk, last_timestamp, sequence) ==
    LET now == a_clock
        r == AsyncLoopBody(last_timestamp, sequence, now)
    IN  IF r.branch = "break"
        THEN /\ a_last_timestamp' = now
             /\ a_sequence' = r.sequence
             /\ a_counter' = a_counter + 1
             /\ a_lock' = 0
             /\ a_locked_ev' = FALSE
             /\ a_unlocked_ev' = TRUE
             /\ a_pc' = [a_pc EXCEPT ![tk] = "idle"]
             /\ a_arg_last' = [a_arg_last EXCEPT ![tk] = 0]
             /\ a_arg_sequence' = [a_arg_sequence EXCEPT ![tk] = 0]
             /\ a_result' = [a_result EXCEPT ![tk] = "return"]
             /\ a_ret' = [a_ret EXCEPT ![tk] =
                    AsyncPack(now, a_epoch, a_worker_id, a_process_id, r.sequence)]
        ELSE /\ a_lock' = tk
             /\ a_locked_ev' = TRUE
             /\ a_unlocked_ev' = FALSE
             /\ a_pc' = [a_pc EXCEPT ![tk] = "sleep"]
             /\ a_arg_last' = [a_arg_last EXCEPT ![tk] = last_timestamp]
             /\ a_arg_sequence' = [a_arg_sequence EXCEPT ![tk] = r.sequence]
             /\ a_result' = [a_result EXCEPT ![tk] = "none"]
             /\ UNCHANGED <<a_last_timestamp, a_sequence, a_counter, a_ret>>

\* generate() whose _lock() does not test whether the lock is held.
AsyncGenerateNoLockTest(tk) ==
    /\ a_pc[tk] = "idle"
    /\ a_calls < MaxAsyncCalls
    /\ a_calls' = a_calls + 1
    /\ a_op' = <<tk, "generate">>
    /\ IF ~a_frozen
       THEN /\ a_result' = [a_result EXCEPT ![tk] = "RuntimeError"]
            /\ UNCHANGED <<a_sequence, a_last_timestamp, a_lock, a_locked_ev,
                           a_unlocked_ev, a_counter, a_pc, a_arg_last, a_arg_sequence,
                           a_ret>>
       ELSE AsyncIterate(tk, a_last_timestamp, a_sequence)
    /\ UNCHANGED <<a_fields, a_clock>>

\* A task calls generate(), while no task is running (all others are idle or
\* suspended).  _lock() raises RuntimeError when the lock is held; otherwise it
\* acquires the lock, clears _unlocked and sets _locked, and generate_snowflake
\* starts from the stored timestamp and sequence.
AsyncGenerate(tk) ==
    /\ a_pc[tk] = "idle"
    /\ a_calls < MaxAsyncCalls
    /\ a_calls' = a_calls + 1
    /\ a_op' = <<tk, "generate">>
    /\ IF ~a_frozen \/ a_lock # 0
       THEN /\ a_result' = [a_result EXCEPT ![tk] = "RuntimeError"]
            /\ UNCHANGED <<a_sequence, a_last_timestamp, a_lock, a_locked_ev,
                           a_unlocked_ev, a_counter, a_pc, a_arg_last, a_arg_sequence,
                           a_ret>>
       ELSE AsyncIterate(tk, a_last_timestamp, a_sequence)
    /\ UNCHANGED <<a_fields, a_clock>>

\* The sleep of a suspended task returns: continue.
AsyncWake(tk) ==
    /\ a_pc[tk] = "sleep"
    /\ AsyncIterate(tk, a_arg_last[tk], a_arg_sequence[tk])
    /\ UNCHANGED <<a_fields, a_clock, a_calls, a_op>>

\* What a call of a synchronous method by task tk leaves alone besides the
\* fields it assigns and its outcome.
AsyncCall(tk, method) ==
    /\ a_pc[tk] = "idle"
    /\ a_calls < MaxAsyncCalls
    /\ a_calls' = a_calls + 1
    /\ a_op' = <<tk, method>>
    /\ UNCHANGED <<a_sequence, a_last_timestamp, a_lock, a_locked_ev, a_unlocked_ev,
                   a_counter, a_clock, a_pc, a_arg_last, a_arg_sequence, a_ret>>

\* _set_epoch without the test of frozen.
AsyncSetEpochNoFrozenTest(tk, epoch) ==
    /\ AsyncCall(tk, "_set_epoch")
    /\ a_epoch' = epoch
    /\ a_result' = [a_result EXCEPT ![tk] = "return"]
    /\ UNCHANGED <<a_frozen, a_worker_id, a_process_id>>

\* _set_epoch(epoch) with a datetime: RuntimeError when frozen, else the
\* epoch is stored.
AsyncSetEpoch(tk, epoch) ==
    /\ AsyncCall(tk, "_set_epoch")
    /\ IF a_frozen
       THEN /\ a_result' = [a_result EXCEPT ![tk] = "RuntimeError"]
            /\ UNCHANGED a_epoch
       ELSE /\ a_epoch' = epoch
            /\ a_result' = [a_result EXCEPT ![tk] = "return"]
    /\ UNCHANGED <<a_frozen, a_worker_id, a_process_id>>

\* _set_worker_id(worker_id) with an int.
AsyncSetWorkerId(tk, worker_id) ==
    /\ AsyncCall(tk, "_set_worker_id")
    /\ IF a_frozen
       THEN /\ a_result' = [a_result EXCEPT ![tk] = "RuntimeError"]
            /\ UNCHANGED a_worker_id
       ELSE /\ a_worker_id' = worker_id
            /\ a_result' = [a_result EXCEPT ![tk] = "return"]
    /\ UNCHANGED <<a_frozen, a_epoch, a_process_id>>

\* _set_process_id(process_id) with an int.
AsyncSetProcessId(tk, process_id) ==
    /\ AsyncCall(tk, "_set_process_id")
    /\ IF a_frozen
       THEN /\ a_result' = [a_result EXCEPT ![tk] = "RuntimeError"]
            /\ UNCHANGED a_process_id
       ELSE /\ a_process_id' = process_id
            /\ a_result' = [a_result EXCEPT ![tk] = "return"]
    /\ UNCHANGED <<a_frozen, a_epoch, a_worker_id>>

\* _setup(epoch, worker_id, process_id) with a datetime and two ints:
\* RuntimeError when frozen, else the three setters and then frozen.
AsyncSetup(tk, epoch, worker_id, process_id) ==
    /\ AsyncCall(tk, "_setup")
    /\ IF a_frozen
       THEN /\ a_result' = [a_result EXCEPT ![tk] = "RuntimeError"]
            /\ UNCHANGED <<a_frozen, a_epoch, a_worker_id, a_process_id>>
       ELSE /\ a_epoch' = epoch
            /\ a_worker_id' = worker_id
            /\ a_process_id' = process_id
            /\ a_frozen' = TRUE
            /\ a_result' = [a_result EXCEPT ![tk] = "return"]

\* The clock: any reading may follow any other.
AsyncTick(readings) ==
    /\ \E c \in readings : c # a_clock /\ a_clock' = c
    /\ UNCHANGED <<a_fields, a_sequence, a_last_timestamp, a_lock, a_locked_ev,
                   a_unlocked_ev, a_counter, a_pc, a_arg_last, a_arg_sequence, a_result,
                   a_ret, a_calls, a_op>>

\* SnowflakeGenerator(epoch, worker_id = ..., process_id = ...) has returned:
\* frozen, both events unset, the sequence 0 and the timestamp the constructor
\* read from datetime.now().
AsyncReady(tasks, epochs, worker_ids, process_ids, lasts) ==
    /\ a_frozen = TRUE
    /\ a_epoch \in epochs
    /\ a_worker_id \in worker_ids
    /\ a_process_id \in process_ids
    /\ a_sequence = 0
    /\ a_last_timestamp \in lasts
    /\ a_lock = 0
    /\ a_locked_ev = FALSE
    /\ a_unlocked_ev = FALSE
    /\ a_counter = 0
    /\ a_pc = [tk \in tasks |-> "idle"]
    /\ a_arg_last = [tk \in tasks |-> 0]
    /\ a_arg_sequence = [tk \in tasks |-> 0]
    /\ a_result = [tk \in tasks |-> "none"]
    /\ a_ret = [tk \in tasks |-> 0]
    /\ a_calls = 0
    /\ a_op = <<0, "none">>

\* No asyncio generator is in use.
AsyncBlank == AsyncReady({}, {0}, {0}, {0}, {0}) /\ a_clock = 0

(***************************************************************************)
(* Specifications                                                          *)
(***************************************************************************)
vars == <<g_vars, c_vars, t_vars, m_vars, p_vars, a_vars>>

\* src/main.py: one generator object, called directly, and the clock.
ClosureInit == GenInit /\ ClientBlank /\ TBlank({}) /\ t_clock = 0 /\ MBlank /\ PkgBlank /\ AsyncBlank

ClosureNext ==
    \/ \E g \in DOMAIN g_state : GenNext(g) /\ UNCHANGED <<c_vars, t_vars, m_vars, p_vars, a_vars>>
    \/ \E g \in DOMAIN g_state : GenLoop(g) /\ UNCHANGED <<c_vars, t_vars, m_vars, p_vars, a_vars>>
    \/ \E g \in DOMAIN g_state : GenWake(g) /\ UNCHANGED <<c_vars, t_vars, m_vars, p_vars, a_vars>>
    \/ GenTick /\ UNCHANGED <<c_vars, t_vars, m_vars, p_vars, a_vars>>

SpecClosure == ClosureInit /\ [][ClosureNext]_vars

\* The same, with the generator's own steps taken eventually: the code between
\* two sleeps runs to its end, and a sleep, whose argument is finite, returns.
ClosureFairInit == ClosureInit /\ g_pid[1] = 31

SpecClosureFair ==
    /\ ClosureFairInit
    /\ [][ClosureNext]_vars
    /\ \A g \in {1} :
           /\ WF_vars(GenLoop(g) /\ UNCHANGED <<c_vars, t_vars, m_vars, p_vars, a_vars>>)
           /\ WF_vars(GenWake(g) /\ UNCHANGED <<c_vars, t_vars, m_vars, p_vars, a_vars>>)

\* src/main.py: two generator objects reading one clock.  next() is called on
\* a generator that has yielded fewer than MaxPairYields values for the
\* millisecond of its last one.
MaxPairYields == 2

ClosurePairInit ==
    GenPairInit /\ ClientBlank /\ TBlank({}) /\ t_clock = 0 /\ MBlank /\ PkgBlank /\ AsyncBlank

ClosurePairNext ==
    \/ \E g \in DOMAIN g_state :
           /\ g_in_ms[g] < MaxPairYields
           /\ GenNext(g)
           /\ UNCHANGED <<c_vars, t_vars, m_vars, p_vars, a_vars>>
    \/ \E g \in DOMAIN g_state : GenLoop(g) /\ UNCHANGED <<c_vars, t_vars, m_vars, p_vars, a_vars>>
    \/ \E g \in DOMAIN g_state : GenWake(g) /\ UNCHANGED <<c_vars, t_vars, m_vars, p_vars, a_vars>>
    \/ GenTick /\ UNCHANGED <<c_vars, t_vars, m_vars, p_vars, a_vars>>

SpecClosurePair == ClosurePairInit /\ [][ClosurePairNext]_vars

\* src/main.py: the Snowflake client, from its construction on.
ClientEpochs == {1}
ClientPids == {-1, 0, 31, 32}
ClientSeeds == {-1, 0, 31, 32}
\* The arguments of create() and renew().
ClientArgs == {0, 31}

ClientInit == GenBlank /\ ClientBlank /\ TBlank({}) /\ t_clock = 0 /\ MBlank /\ PkgBlank /\ AsyncBlank

ClientNext ==
    \/ \E epoch \in ClientEpochs, pid \in ClientPids, seed \in ClientSeeds :
           ClientNew(epoch, pid, seed) /\ UNCHANGED <<t_vars, m_vars, p_vars, a_vars>>
    \/ ClientGenerate /\ UNCHANGED <<t_vars, m_vars, p_vars, a_vars>>
    \/ ClientDestroy /\ UNCHANGED <<t_vars, m_vars, p_vars, a_vars>>
    \/ \E pid \in ClientArgs, seed \in ClientArgs :
           ClientCreate(pid, seed) /\ UNCHANGED <<t_vars, m_vars, p_vars, a_vars>>
    \/ \E pid \in ClientArgs, seed \in ClientArgs :
           ClientRenew(pid, seed) /\ UNCHANGED <<t_vars, m_vars, p_vars, a_vars>>
    \/ \E bound \in BOOLEAN, fmt \in {"ms", "s"} :
           ClientToTimestamp(bound, fmt) /\ UNCHANGED <<t_vars, m_vars, p_vars, a_vars>>
    \/ \E g \in DOMAIN g_state : GenLoop(g) /\ UNCHANGED <<c_vars, t_vars, m_vars, p_vars, a_vars>>
    \/ \E g \in DOMAIN g_state : GenWake(g) /\ UNCHANGED <<c_vars, t_vars, m_vars, p_vars, a_vars>>
    \/ GenTick /\ UNCHANGED <<c_vars, t_vars, m_vars, p_vars, a_vars>>

SpecClient == ClientInit /\ [][ClientNext]_vars

\* src/pyflaker.py: the constructor on its own.
TNewEpochs == {1000}
TNewIds == {-1, 0, 31, 32}
TNewSteps == {0, 1, 2, 4095, 4096}
TNewSequences == {-1, 0, 4095, 4096}

ThreadedNewInit ==
    GenBlank /\ ClientBlank /\ MBlank /\ PkgBlank /\ AsyncBlank /\ TBlank({}) /\ t_clock \in TClockValues

ThreadedNewNext ==
    \E epoch \in TNewEpochs, process_id \in TNewIds, thread_id \in TNewIds,
       step \in TNewSteps, sequence \in TNewSequences, last \in TClockValues,
       no_last \in BOOLEAN :
        /\ TNew(epoch, process_id, thread_id, step, sequence, last, no_last)
        /\ UNCHANGED <<g_vars, c_vars, m_vars, p_vars, a_vars>>

SpecThreadedNew == ThreadedNewInit /\ [][ThreadedNewNext]_vars

\* src/pyflaker.py: one thread calling an open generator, call after call.
ThreadedSeqInit ==
    /\ GenBlank /\ ClientBlank /\ MBlank /\ PkgBlank /\ AsyncBlank
    /\ TReady({1}, MaxCalls, {0}, {0, 31}, {31}, {1}, {0, 4094, 4095}, TClockValues)
    /\ t_clock \in TClockValues

ThreadedCalls ==
    \/ \E th \in DOMAIN t_pc : TGenerate(th) /\ UNCHANGED <<g_vars, c_vars, m_vars, p_vars, a_vars>>
    \/ \E th \in DOMAIN t_pc : TNext(th) /\ UNCHANGED <<g_vars, c_vars, m_vars, p_vars, a_vars>>
    \/ \E th \in DOMAIN t_pc : TEnter(th) /\ UNCHANGED <<g_vars, c_vars, m_vars, p_vars, a_vars>>
    \/ \E th \in DOMAIN t_pc : TAcquire(th) /\ UNCHANGED <<g_vars, c_vars, m_vars, p_vars, a_vars>>
    \/ \E th \in DOMAIN t_pc : TLoop(th) /\ UNCHANGED <<g_vars, c_vars, m_vars, p_vars, a_vars>>
    \/ \E th \in DOMAIN t_pc : TWake(th) /\ UNCHANGED <<g_vars, c_vars, m_vars, p_vars, a_vars>>
    \/ \E th \in DOMAIN t_pc : TSetLast(th) /\ UNCHANGED <<g_vars, c_vars, m_vars, p_vars, a_vars>>
    \/ \E th \in DOMAIN t_pc : TSetSequence(th) /\ UNCHANGED <<g_vars, c_vars, m_vars, p_vars, a_vars>>
    \/ \E th \in DOMAIN t_pc : TReturn(th) /\ UNCHANGED <<g_vars, c_vars, m_vars, p_vars, a_vars>>

ThreadedSeqNext ==
    \/ ThreadedCalls
    \/ TTick(TClockValues) /\ UNCHANGED <<g_vars, c_vars, m_vars, p_vars, a_vars>>

SpecThreadedSeq == ThreadedSeqInit /\ [][ThreadedSeqNext]_vars

\* src/pyflaker.py: two threads calling one generator, and close().  The clock
\* reads one of two microseconds of one millisecond, or a later millisecond;
\* the epoch lies between them.
ThreadedClock == {0, 1, 1000}

ThreadedInit ==
    /\ GenBlank /\ ClientBlank /\ MBlank /\ PkgBlank /\ AsyncBlank
    /\ TReady({1, 2}, MaxConcCalls, {1000}, {31}, {31}, {1}, {0, 4095}, {0, 1000})
    /\ t_clock \in ThreadedClock

ThreadedNext ==
    \/ ThreadedCalls
    \/ TTick(ThreadedClock) /\ UNCHANGED <<g_vars, c_vars, m_vars, p_vars, a_vars>>
    \/ TClose /\ UNCHANGED <<g_vars, c_vars, m_vars, p_vars, a_vars>>

SpecThreaded == ThreadedInit /\ [][ThreadedNext]_vars

\* src/pyflaker.py: two threads that call generate() and close() and also
\* assign to the properties sequence and last.
TAssignedSequences == {4095, 4096}
TAssignedLasts == {0, 1000}

ThreadedSetInit ==
    /\ GenBlank /\ ClientBlank /\ MBlank /\ PkgBlank /\ AsyncBlank
    /\ TReady({1, 2}, MaxConcCalls, {1000}, {31}, {31}, {1}, {0}, {1000})
    /\ t_clock \in TAssignedLasts

ThreadedSetNext ==
    \/ ThreadedCalls
    \/ TTick(TAssignedLasts) /\ UNCHANGED <<g_vars, c_vars, m_vars, p_vars, a_vars>>
    \/ TClose /\ UNCHANGED <<g_vars, c_vars, m_vars, p_vars, a_vars>>
    \/ \E th \in DOMAIN t_pc, value \in TAssignedSequences :
           TAssignSequence(th, value) /\ UNCHANGED <<g_vars, c_vars, m_vars, p_vars, a_vars>>
    \/ \E th \in DOMAIN t_pc, value \in TAssignedLasts :
           TAssignLast(th, value) /\ UNCHANGED <<g_vars, c_vars, m_vars, p_vars, a_vars>>

SpecThreadedSet == ThreadedSetInit /\ [][ThreadedSetNext]_vars

\* src/src/main.py: generate() called by the threads of DOMAIN m_pc.
MetaNext ==
    \/ \E th \in DOMAIN m_pc : MGenerate(th) /\ UNCHANGED <<g_vars, c_vars, t_vars, p_vars, a_vars>>
    \/ \E th \in DOMAIN m_pc : MNow(th) /\ UNCHANGED <<g_vars, c_vars, t_vars, p_vars, a_vars>>
    \/ \E th \in DOMAIN m_pc : MCompareLess(th) /\ UNCHANGED <<g_vars, c_vars, t_vars, p_vars, a_vars>>
    \/ \E th \in DOMAIN m_pc : MCompareEqual(th) /\ UNCHANGED <<g_vars, c_vars, t_vars, p_vars, a_vars>>
    \/ \E th \in DOMAIN m_pc : MLoadSequence(th) /\ UNCHANGED <<g_vars, c_vars, t_vars, p_vars, a_vars>>
    \/ \E th \in DOMAIN m_pc : MStoreSequence(th) /\ UNCHANGED <<g_vars, c_vars, t_vars, p_vars, a_vars>>
    \/ \E th \in DOMAIN m_pc : MCheckZero(th) /\ UNCHANGED <<g_vars, c_vars, t_vars, p_vars, a_vars>>
    \/ \E th \in DOMAIN m_pc : MReset(th) /\ UNCHANGED <<g_vars, c_vars, t_vars, p_vars, a_vars>>
    \/ \E th \in DOMAIN m_pc : MSetLast(th) /\ UNCHANGED <<g_vars, c_vars, t_vars, p_vars, a_vars>>
    \/ \E th \in DOMAIN m_pc : MReturn(th) /\ UNCHANGED <<g_vars, c_vars, t_vars, p_vars, a_vars>>
    \/ \E th \in DOMAIN m_pc : MWake(th) /\ UNCHANGED <<g_vars, c_vars, t_vars, p_vars, a_vars>>
    \/ MTick /\ UNCHANGED <<g_vars, c_vars, t_vars, p_vars, a_vars>>

\* One caller, any number of calls.
MetaSeqInit ==
    /\ GenBlank /\ ClientBlank /\ TBlank({}) /\ t_clock = 0 /\ PkgBlank /\ AsyncBlank
    /\ MReady({1}, -1, {0}, {3}, {7})
    /\ m_clock \in 0..MaxMs

SpecMetaSeq == MetaSeqInit /\ [][MetaNext]_vars

\* Two threads, MaxMetaCalls calls each.
MetaInit ==
    /\ GenBlank /\ ClientBlank /\ TBlank({}) /\ t_clock = 0 /\ PkgBlank /\ AsyncBlank
    /\ MReady({1, 2}, MaxMetaCalls, {0}, {3}, {7})
    /\ m_clock \in 0..MaxMs

SpecMeta == MetaInit /\ [][MetaNext]_vars

\* src/pyflaker/generator.py: one thread calling generate(), call after call.
PkgEpochs == {0, 1000}
PkgSalts == {0, 1023}
PkgSequences == {0, 1}

PkgInit ==
    /\ GenBlank /\ ClientBlank /\ TBlank({}) /\ t_clock = 0 /\ MBlank /\ AsyncBlank
    /\ PkgReady({1}, PkgEpochs, PkgSalts, PkgSequences)
    /\ p_clock \in TClockValues

PkgNext ==
    \/ \E th \in DOMAIN p_pc : PkgGenerate(th) /\ UNCHANGED <<g_vars, c_vars, t_vars, m_vars, a_vars>>
    \/ \E th \in DOMAIN p_pc : PkgAcquire(th) /\ UNCHANGED <<g_vars, c_vars, t_vars, m_vars, a_vars>>
    \/ \E th \in DOMAIN p_pc : PkgLoop(th) /\ UNCHANGED <<g_vars, c_vars, t_vars, m_vars, a_vars>>
    \/ \E th \in DOMAIN p_pc : PkgWake(th) /\ UNCHANGED <<g_vars, c_vars, t_vars, m_vars, a_vars>>
    \/ \E th \in DOMAIN p_pc : PkgConstruct(th) /\ UNCHANGED <<g_vars, c_vars, t_vars, m_vars, a_vars>>
    \/ PkgTick /\ UNCHANGED <<g_vars, c_vars, t_vars, m_vars, a_vars>>

SpecPkg == PkgInit /\ [][PkgNext]_vars


\* src/src/__init__.py: two tasks calling one generator.  The clock reads one
\* of two microseconds of one millisecond, or a later millisecond.
AsyncClock == {0, 1, 1000}
AsyncNewEpochs == {1000}
AsyncNewIds == {0, 31}

AsyncInit ==
    /\ GenBlank /\ ClientBlank /\ TBlank({}) /\ t_clock = 0 /\ MBlank /\ PkgBlank
    /\ AsyncReady({1, 2}, {0}, {7}, {3}, AsyncClock)
    /\ a_clock \in AsyncClock

AsyncNext ==
    \/ \E tk \in DOMAIN a_pc :
           AsyncGenerate(tk) /\ UNCHANGED <<g_vars, c_vars, t_vars, m_vars, p_vars>>
    \/ \E tk \in DOMAIN a_pc :
           AsyncWake(tk) /\ UNCHANGED <<g_vars, c_vars, t_vars, m_vars, p_vars>>
    \/ \E tk \in DOMAIN a_pc, e \in AsyncNewEpochs, w \in AsyncNewIds, p \in AsyncNewIds :
           AsyncSetup(tk, e, w, p) /\ UNCHANGED <<g_vars, c_vars, t_vars, m_vars, p_vars>>
    \/ \E tk \in DOMAIN a_pc, e \in AsyncNewEpochs :
           AsyncSetEpoch(tk, e) /\ UNCHANGED <<g_vars, c_vars, t_vars, m_vars, p_vars>>
    \/ \E tk \in DOMAIN a_pc, w \in AsyncNewIds :
           AsyncSetWorkerId(tk, w) /\ UNCHANGED <<g_vars, c_vars, t_vars, m_vars, p_vars>>
    \/ \E tk \in DOMAIN a_pc, p \in AsyncNewIds :
           AsyncSetProcessId(tk, p) /\ UNCHANGED <<g_vars, c_vars, t_vars, m_vars, p_vars>>
    \/ AsyncTick(AsyncClock) /\ UNCHANGED <<g_vars, c_vars, t_vars, m_vars, p_vars>>

SpecAsync == AsyncInit /\ [][AsyncNext]_vars

(***************************************************************************)
(* Claims                                                                  *)
(***************************************************************************)

\* C1 (SpecThreadedSeq): with process_id and thread_id in [0,31] and step 1,
\* no two values that sequential generate() calls returned are equal.
C1_ReturnedIdsDistinct ==
    (t_process_id \in 0..31 /\ t_thread_id \in 0..31 /\ t_step = 1) =>
        \A i, j \in 1..Len(t_returned) : i # j => t_returned[i] # t_returned[j]

\* C2 (SpecClosure): every value a generator yields is greater, as an integer,
\* than the value it yielded before.
C2_YieldsStrictlyIncrease ==
    [][\A g \in DOMAIN g_state :
          (g_state[g] = "running" /\ g_state'[g] = "suspended" /\ g_in_ms[g] > 0)
              => g_yielded'[g] > g_yielded[g]]_vars

\* The second value yielded for one millisecond, by a call that had to wait
\* (the clock went backwards in between).
C2_Witness ==
    \E g \in DOMAIN g_state :
        g_state[g] = "suspended" /\ g_in_ms[g] = 2 /\ g_tries[g] >= 2

\* C3 (SpecClosure): a yield that follows 4096 yields for one millisecond T
\* carries a clock reading greater than T, and every yielded (timestamp,
\* sequence) pair is lexicographically greater than the pair yielded before,
\* so that no pair is yielded twice.
C3_ExhaustionWaitsForNextMs ==
    [][\A g \in DOMAIN g_state :
          (g_state[g] = "running" /\ g_state'[g] = "suspended" /\ g_in_ms[g] > 0) =>
              /\ g_in_ms[g] = 2^g_sequence_bits => g_last_timestamp'[g] > g_last_timestamp[g]
              /\ \/ g_last_timestamp'[g] > g_last_timestamp[g]
                 \/ /\ g_last_timestamp'[g] = g_last_timestamp[g]
                    /\ g_sequence'[g] > g_sequence[g]]_vars

\* 4096 values were yielded for the millisecond the clock still reads, and the
\* running call is in its second sleep of 1 ms or a later one.
C3_Witness ==
    \E g \in DOMAIN g_state :
        /\ g_state[g] = "running" /\ g_pc[g] = "sleep" /\ g_sleep_arg[g] = 1
        /\ g_in_ms[g] = 2^g_sequence_bits
        /\ g_tries[g] >= 2
        /\ g_time = g_last_timestamp[g]

TInside(th) == t_pc[th] \in {"loop", "sleep", "set_last", "set_sequence", "pack"}

C7_TimestampNeverDecreases ==
    /\ \A th \in DOMAIN t_pc :
           t_pc[th] \in {"set_last", "set_sequence", "pack"} => t_now[th] >= t_last
    /\ \A i, j \in 1..Len(t_returned) :
           i < j => Shr(t_returned[i], 22) <= Shr(t_returned[j], 22)

\* A call that slept because the clock read earlier than last is about to
\* return, after an earlier value was returned.
C7_Witness ==
    \E th \in DOMAIN t_pc :
        t_pc[th] = "pack" /\ t_waited[th] = "regressed" /\ Len(t_returned) >= 1

\* C8 (SpecThreaded): closed is never cleared, and a call that began on a
\* closed generator gets no further than generate()'s first statement: it
\* ends with RuntimeError, or StopIteration from __next__.
C8_ClosedIsTerminal ==
    /\ [][t_closed => t_closed']_vars
    /\ [](\A th \in DOMAIN t_pc :
             t_began_closed[th] =>
                 /\ t_pc[th] \in {"idle", "generate"}
                 /\ t_pc[th] = "idle" =>
                        t_result[th] = IF t_via_next[th] THEN "StopIteration"
                                       ELSE "RuntimeError")

\* generate() and __next__() were both called on a closed generator and failed.
C8_Witness ==
    \E a, b \in DOMAIN t_pc :
        /\ t_began_closed[a] /\ t_pc[a] = "idle" /\ t_result[a] = "RuntimeError"
        /\ t_began_closed[b] /\ t_pc[b] = "idle" /\ t_result[b] = "StopIteration"

\* C9 (SpecThreadedNew): a constructed generator has process_id and thread_id
\* in [0,31].
C9_ConstructedIdsInRange ==
    t_ctor = "ok" => (t_process_id \in 0..31 /\ t_thread_id \in 0..31)


\* C10 (SpecClient): a constructed client holds a generator whose pid and seed
\* are in [0,31]: a value out of range fails the construction.
C10_RangeCheckedAtConstruction ==
    c_state = "constructed" =>
        (/\ g_pid[c_generator] \in 0..31
         /\ g_seed[c_generator] \in 0..31)

\* C11 (SpecThreaded): every value generate() returned is at least 0 and less
\* than 2^64; a clock reading earlier than the epoch makes generate() raise
\* instead of returning.
C11_ReturnedIdsInRange ==
    \A i \in 1..Len(t_returned) :
        t_returned[i] >= 0 /\ ~AtLeastSnowflakeBits(t_returned[i])

\* C12 (SpecThreadedSeq): every returned value is (elapsed_ms << 22) |
\* (thread_id << 17) | (process_id << 12) | sequence: process_id occupies bits
\* [12,17) and thread_id, the worker, bits [17,22).  Sequential calls return in
\* the order of their commits.
C12_WorkerAboveProcess ==
    (t_process_id \in 0..31 /\ t_thread_id \in 0..31) =>
        \A i \in 1..Len(t_returned) :
            /\ i <= Len(t_commits)
            /\ t_returned[i] =
                   BitOr(BitOr(BitOr(Shl(TimestampMs(t_commits[i].now) - TimestampMs(t_epoch), 22),
                                     Shl(t_thread_id, 17)),
                               Shl(t_process_id, 12)),
                         t_commits[i].sequence)

\* C13 (SpecClient): the decode of an ID the generator yielded, (id >> 22) + E
\* as to_timestamp computes it, is the clock reading the ID was yielded at,
\* whatever pid and seed in [0,31] and whatever the sequence.
C13_DecodeReturnsClockReading ==
    (/\ c_op = "to_timestamp"
     /\ g_pid[c_generator] \in 0..31
     /\ g_seed[c_generator] \in 0..31) =>
        /\ c_result = "ok"
        /\ c_timestamp = g_last_timestamp[c_generator]

\* C17 (SpecClient): destroy() succeeds and leaves the client without a
\* generator, also when it follows another destroy(); generate() on a client
\* without a generator fails.
C17_DestroyIsIdempotent ==
    /\ c_op = "destroy" => (c_result = "ok" /\ c_generator = 0)
    /\ (c_op = "generate" /\ c_generator = 0) => c_result \notin {"none", "ok"}

\* C18 (SpecClient): renew(pid, seed) with pid and seed in [0,31] succeeds
\* from any state and leaves the client holding a generator made from that pid
\* and seed; create(pid, seed) succeeds and leaves the client holding a
\* generator, the one it had or a new one.
C18_RenewLeavesNewGenerator ==
    /\ c_op = "renew" =>
           /\ c_result = "ok"
           /\ c_generator # 0
           /\ g_state[c_generator] = "created"
           /\ g_pid[c_generator] = c_args.pid
           /\ g_seed[c_generator] = c_args.seed
    /\ c_op = "create" => (c_result = "ok" /\ c_generator # 0)

\* C14 (SpecPkg): a generate() call of the package's generator returns a
\* Snowflake whose timestamp field, int(snowflake) >> 22, is the number of
\* milliseconds from the epoch to the clock reading it was minted at.
C14_TimestampFieldIsElapsedMs ==
    \A th \in DOMAIN p_pc :
        (p_pc[th] = "idle" /\ p_result[th] # "none") =>
            /\ p_result[th] = "return"
            /\ Shr(p_ret[th], 22) = TimestampMs(p_last_time) - TimestampMs(p_epoch)

C16_OnlyGenerateChangesState ==
    [][/\ t_last' # t_last =>
              \E th \in DOMAIN t_pc :
                  t_pc[th] = "set_last" /\ t_pc'[th] = "set_sequence" /\ t_last' = t_now[th]
       /\ t_sequence' # t_sequence =>
              \E th \in DOMAIN t_pc :
                  t_pc[th] = "set_sequence" /\ t_pc'[th] = "pack" /\ t_sequence' = t_seq[th]
      ]_vars

\* C19 (SpecClosurePair): two generators with different (pid, seed) pairs
\* never yield equal IDs, and a step of one generator leaves the other's
\* last_timestamp and sequence unchanged.  A caller may stop calling a
\* generator after any yield while the other goes on, so every pair of IDs the
\* two yield is, in some behaviour, the pair of the IDs they yielded last.
C19_GeneratorsAreIndependent ==
    /\ [](\A g, h \in DOMAIN g_state :
             (g # h /\ g_in_ms[g] > 0 /\ g_in_ms[h] > 0) => g_yielded[g] # g_yielded[h])
    /\ [][\A g, h \in DOMAIN g_state :
             (g # h /\ <<g_state[g], g_pc[g], g_result[g]>> # <<g_state'[g], g_pc'[g], g_result'[g]>>)
                 => /\ g_last_timestamp'[h] = g_last_timestamp[h]
                    /\ g_sequence'[h] = g_sequence[h]]_vars

\* Both generators yielded their second ID for one and the same millisecond:
\* the two IDs carry the same timestamp and the same sequence.
C19_Witness ==
    /\ DOMAIN g_state = {1, 2}
    /\ g_state[1] = "suspended" /\ g_state[2] = "suspended"
    /\ g_last_timestamp[1] = g_last_timestamp[2]
    /\ g_sequence[1] = 1 /\ g_sequence[2] = 1

\* C20 (SpecClosureFair): a next() call does not wait forever once the clock
\* reads and stays above the stored last_timestamp: the generator is never,
\* from some point on, always inside a call with the clock above
\* last_timestamp.
C20_WaitingCallEventuallyYields ==
    \A g \in {1} :
        []<>(~(g_state[g] = "running" /\ g_time > g_last_timestamp[g]))

\* A call waits in the sleep that follows 4096 yields for one millisecond, and
\* the clock has advanced past that millisecond.
C20_Witness ==
    \E g \in DOMAIN g_state :
        /\ g_state[g] = "running" /\ g_pc[g] = "sleep"
        /\ g_in_ms[g] = 2^g_sequence_bits
        /\ g_time > g_last_timestamp[g]

\* C21 (SpecPkg): a generate() call of the package's generator whose clock
\* reading equals last_time waits only when the increment of the sequence
\* overflows 10 bits, that is when the stored sequence is 1023; otherwise it
\* goes on with the sequence plus one.
C21_WaitsOnlyOnOverflow ==
    \A th \in DOMAIN p_pc :
        p_waited[th] = "overflow" => p_sequence = 2^10 - 1

\* C22 (SpecClosure): the k-th ID a generator yielded for one millisecond has
\* sequence k - 1, so the first ID of a millisecond has sequence 0; the
\* sequence field of a yielded ID is the generator's sequence and lies in
\* [0,4095].
C22_SequenceCountsYieldsOfMs ==
    \A g \in DOMAIN g_state :
        g_state[g] = "suspended" =>
            /\ g_in_ms[g] <= 2^g_sequence_bits
            /\ g_sequence[g] = g_in_ms[g] - 1
            /\ g_sequence[g] \in 0..4095
            /\ BitAnd(g_yielded[g], 4095) = g_sequence[g]

\* The 4096th ID of one millisecond was yielded.
C22_Witness ==
    \E g \in DOMAIN g_state :
        g_state[g] = "suspended" /\ g_in_ms[g] = 2^g_sequence_bits /\ g_sequence[g] = 4095

\* C23 (SpecClosure): a loop iteration that reads a clock earlier than
\* last_timestamp calls sleep with last_timestamp minus the reading and
\* changes neither last_timestamp nor sequence; when a sleep returns the
\* generator is back at the clock reading, with nothing else changed.
C23_RegressionSleepsTheDifference ==
    [][\A g \in DOMAIN g_state :
          /\ (/\ g_state[g] = "running" /\ g_pc[g] = "loop"
              /\ g_last_timestamp[g] > g_time
              /\ <<g_state'[g], g_pc'[g]>> # <<g_state[g], g_pc[g]>>) =>
                 /\ g_state'[g] = "running" /\ g_pc'[g] = "sleep"
                 /\ g_sleep_arg'[g] = g_last_timestamp[g] - g_time
                 /\ g_last_timestamp'[g] = g_last_timestamp[g]
                 /\ g_sequence'[g] = g_sequence[g]
          /\ (/\ g_state[g] = "running" /\ g_pc[g] = "sleep"
              /\ <<g_state'[g], g_pc'[g]>> # <<g_state[g], g_pc[g]>>) =>
                 /\ g_state'[g] = "running" /\ g_pc'[g] = "loop"
                 /\ g_last_timestamp'[g] = g_last_timestamp[g]
                 /\ g_sequence'[g] = g_sequence[g]
                 /\ g_yielded'[g] = g_yielded[g]]_vars

\* A generator sleeps 2 milliseconds: the clock read 2 milliseconds less than
\* last_timestamp.
C23_Witness ==
    \E g \in DOMAIN g_state :
        /\ g_state[g] = "running" /\ g_pc[g] = "sleep"
        /\ g_sleep_arg[g] = 2
        /\ g_in_ms[g] > 0

\* C24 (SpecAsync): while a task is suspended in a sleep of generate_snowflake
\* it holds the lock, no other task's generate() call gets to pass
\* _last_timestamp and _sequence to generate_snowflake or to return an ID,
\* and the two fields change only in the step in which the suspended call
\* returns, to the clock reading and the sequence of the returned ID.
C24_SuspendedCallOwnsTheFields ==
    [][\A s \in DOMAIN a_pc :
          a_pc[s] = "sleep" =>
              /\ a_lock = s
              /\ \A o \in DOMAIN a_pc \ {s} :
                     /\ a_pc[o] = "idle" /\ a_pc'[o] = "idle"
                     /\ a_arg_last'[o] = a_arg_last[o]
                     /\ a_arg_sequence'[o] = a_arg_sequence[o]
                     /\ a_ret'[o] = a_ret[o]
                     /\ a_result'[o] # a_result[o] => a_result'[o] = "RuntimeError"
              /\ <<a_last_timestamp', a_sequence'>> # <<a_last_timestamp, a_sequence>> =>
                     /\ a_pc'[s] = "idle" /\ a_result'[s] = "return"
                     /\ a_last_timestamp' = a_clock
                     /\ a_sequence' = BitAnd(a_ret'[s], 4095)]_vars

\* A task called generate() while another one was suspended in a sleep.
C24_Witness ==
    \E s \in DOMAIN a_pc, o \in DOMAIN a_pc :
        /\ s # o /\ a_pc[s] = "sleep"
        /\ a_op = <<o, "generate">> /\ a_result[o] = "RuntimeError"

\* C25 (SpecAsync): a constructed generator stays frozen, and every call of
\* _setup, _set_epoch, _set_worker_id or _set_process_id raises RuntimeError
\* and leaves epoch, worker_id and process_id as they were.
C25_FrozenSettersRaise ==
    [][/\ a_frozen /\ a_frozen'
       /\ (/\ a_calls' # a_calls
           /\ a_op'[2] \in {"_setup", "_set_epoch", "_set_worker_id", "_set_process_id"}) =>
              /\ a_result'[a_op'[1]] = "RuntimeError"
              /\ <<a_epoch', a_worker_id', a_process_id'>> =
                     <<a_epoch, a_worker_id, a_process_id>>]_vars

\* _set_epoch was called with an epoch other than the stored one, after an
\* ID was returned.
C25_Witness ==
    /\ a_op[2] = "_set_epoch"
    /\ a_result[a_op[1]] = "RuntimeError"
    /\ a_epoch \notin AsyncNewEpochs
    /\ a_counter > 0

\* C27 (SpecAsync): _locked is set exactly when the lock is held and
\* _unlocked is set exactly when the lock is free.
C27_EventsMirrorLock ==
    /\ a_locked_ev = (a_lock # 0)
    /\ a_unlocked_ev = (a_lock = 0)

\* C26 (SpecThreaded): every exit from generate() releases the lock: the lock
\* is held only while some thread is between acquire and release inside
\* generate().
C26_LockHeldOnlyInsideGenerate ==
    t_lock # 0 => \E th \in DOMAIN t_pc : TInside(th)

====
